---- MODULE Spec2Model ----
(***************************************************************************)
(* Model of the Modrinth collection downloader.                            *)
(*                                                                         *)
(*   src/modrinth_collection_downloader.py  the current script: release    *)
(*       selection (get_latest_version), the per-project workers           *)
(*       (download_mod, download_resourcepack), the shared stats counters, *)
(*       the cached newest Minecraft version and main's two worker pools;  *)
(*   src/download_modrinth.py               the first script generation    *)
(*       (its get_latest_version is dm_get_latest_version here).           *)
(*                                                                         *)
(* Strings that the code splits and joins (file names, project ids) are    *)
(* sequences of tokens: the token "." is the dot character, every other    *)
(* token is a run of characters without a dot.                             *)
(***************************************************************************)
EXTENDS Naturals, Sequences, FiniteSets, TLC

(***************************************************************************)
(* Bounds of the model.                                                    *)
(***************************************************************************)
\* number of mod projects in the collection
NumMods == 2
\* number of resource-pack projects in the collection
NumRps == 6
\* number of consecutive process runs (a run starts after the previous one
\* completed or was killed)
MaxRuns == 2
\* longest candidate list given to the release selector in SpecSel
MaxCands == 2
\* longest file display name, in tokens, given to the name functions in
\* SpecNames
MaxNameLen == 5

\* mutant of max_workers: a thread for every work item
max_workers_unbounded == NumMods + NumRps + 1

\* ThreadPoolExecutor(max_workers=5)
max_workers == 5

(***************************************************************************)
(* Strings: str.split("."), ".".join, list.insert(-1, x), str.lower        *)
(***************************************************************************)
DOT == "."

None == "None"

RECURSIVE split(_)
\* name.split("."): the dot-delimited segments, each a token sequence
split(s) ==
    IF s = <<>> THEN << <<>> >>
    ELSE LET rest == split(Tail(s))
         IN  IF Head(s) = DOT
             THEN << <<>> >> \o rest
             ELSE << <<Head(s)>> \o Head(rest) >> \o Tail(rest)

RECURSIVE join(_)
\* ".".join(parts)
join(parts) ==
    IF Len(parts) = 0 THEN <<>>
    ELSE IF Len(parts) = 1 THEN parts[1]
    ELSE parts[1] \o <<DOT>> \o join(Tail(parts))

\* mutant of insert_before_last: parts.append(x)
insert_last(parts, x) == Append(parts, x)

\* parts.insert(-1, x): x goes before the last element
insert_before_last(parts, x) ==
    IF Len(parts) = 0 THEN <<x>>
    ELSE SubSeq(parts, 1, Len(parts) - 1) \o <<x>> \o <<parts[Len(parts)]>>

\* filename_with_id of download_mod: the project id inserted before the last
\* dot-delimited segment of the file's display name
filename_with_id_of(filename, mod_id) ==
    join(insert_before_last(split(filename), mod_id))

\* mutant of temp_of: one temporary name for every download
temp_of_shared(final) == <<"download", DOT, "tmp">>

\* temp_filename: the final name with ".tmp" appended
temp_of(final) == final \o <<DOT, "tmp">>

\* str.lower() on the loader tags of the model
lower(s) ==
    CASE s = "Fabric" -> "fabric"
      [] s = "FABRIC" -> "fabric"
      [] s = "Forge"  -> "forge"
      [] OTHER        -> s

LowerAll(S) == { lower(l) : l \in S }

(***************************************************************************)
(* Catalog data.  A candidate entry of the version list is a record:       *)
(* isdict (isinstance(x, dict)), truthy (bool(x)), has_gv / has_loaders ("k" in  *)
(* x), game_versions and loaders as sets (the code only tests membership), *)
(* files as the ordered file list.                                         *)
(***************************************************************************)
File(name, prim, u) == [filename |-> name, primary |-> prim, url |-> u]

\* Python's None where a file record is expected
NoFile == File(<<>>, FALSE, None)

Release(gv, ld, fs) ==
    [truthy |-> TRUE, isdict |-> TRUE, has_gv |-> TRUE, has_loaders |-> TRUE,
     game_versions |-> gv, loaders |-> ld, files |-> fs]

\* a dict entry without the "loaders" key
ReleaseNoLoaders(gv, fs) ==
    [truthy |-> TRUE, isdict |-> TRUE, has_gv |-> TRUE, has_loaders |-> FALSE,
     game_versions |-> gv, loaders |-> {}, files |-> fs]

\* a dict entry without the "game_versions" key
ReleaseNoGameVersions(ld, fs) ==
    [truthy |-> TRUE, isdict |-> TRUE, has_gv |-> FALSE, has_loaders |-> TRUE,
     game_versions |-> {}, loaders |-> ld, files |-> fs]

\* an entry that is not a dict (a string, a number)
Junk ==
    [truthy |-> TRUE, isdict |-> FALSE, has_gv |-> FALSE, has_loaders |-> FALSE,
     game_versions |-> {}, loaders |-> {}, files |-> <<>>]

\* Python's None where a release is expected ("not latest_mod")
NoRelease ==
    [truthy |-> FALSE, isdict |-> FALSE, has_gv |-> FALSE, has_loaders |-> FALSE,
     game_versions |-> {}, loaders |-> {}, files |-> <<>>]

\* index of the first element of seq satisfying P, 0 when there is none
FirstIndex(seq, P(_)) ==
    IF \E i \in 1..Len(seq) : P(seq[i])
    THEN CHOOSE i \in 1..Len(seq) :
            P(seq[i]) /\ \A j \in 1..(i - 1) : ~P(seq[j])
    ELSE 0

\* next((x for x in seq if P(x)), default)
first_or(seq, P(_), default) ==
    LET i == FirstIndex(seq, P) IN IF i = 0 THEN default ELSE seq[i]

(***************************************************************************)
(* Release selection: the pure part of get_latest_version.                 *)
(***************************************************************************)
\* an answer of ModrinthClient.get: None (URLError), a JSON list, or JSON
\* of another shape
Answer(k, d) == [kind |-> k, data |-> d]
NoAnswer == Answer("none", <<>>)

\* "not mod_versions_data": None or an empty list
falsy(ans) == ans.kind = "none" \/ (ans.kind = "list" /\ ans.data = <<>>)

loader_matches(loader, r) == lower(loader) \in LowerAll(r.loaders)

\* lines 248-256: tier 1, loader and newest version both match
tier1(r, latest, loader) ==
    /\ r.isdict /\ r.has_gv /\ r.has_loaders
    /\ latest \in r.game_versions
    /\ loader_matches(loader, r)

\* lines 259-266: tier 2, newest version matches, loader ignored
tier2(r, latest) ==
    r.isdict /\ r.has_gv /\ latest \in r.game_versions

\* lines 269-276: tier 3, loader matches, version ignored
tier3(r, loader) ==
    r.isdict /\ r.has_loaders /\ loader_matches(loader, r)

\* mutant of explicit_match: the loader is not compared
explicit_match_any_loader(r, version, loader) ==
    /\ r.isdict /\ r.has_gv /\ r.has_loaders
    /\ version \in r.game_versions

\* lines 282-293: the explicit-version filter
explicit_match(r, version, loader) ==
    /\ r.isdict /\ r.has_gv /\ r.has_loaders
    /\ version \in r.game_versions
    /\ loader_matches(loader, r)

\* mutant of select_auto: the loader-only tier is tried before the
\* version-only tier
select_auto_loader_first(data, latest, loader) ==
    LET T1(r) == tier1(r, latest, loader)
        T2(r) == tier2(r, latest)
        T3(r) == tier3(r, loader)
    IN  IF FirstIndex(data, T1) # 0 THEN data[FirstIndex(data, T1)]
        ELSE IF FirstIndex(data, T3) # 0 THEN data[FirstIndex(data, T3)]
        ELSE IF FirstIndex(data, T2) # 0 THEN data[FirstIndex(data, T2)]
        ELSE NoRelease

\* lines 240-279 after the newest version is known
select_auto(data, latest, loader) ==
    LET T1(r) == tier1(r, latest, loader)
        T2(r) == tier2(r, latest)
        T3(r) == tier3(r, loader)
    IN  IF FirstIndex(data, T1) # 0 THEN data[FirstIndex(data, T1)]
        ELSE IF FirstIndex(data, T2) # 0 THEN data[FirstIndex(data, T2)]
        ELSE IF FirstIndex(data, T3) # 0 THEN data[FirstIndex(data, T3)]
        ELSE NoRelease

\* mutant of select_explicit: the last match of the list, not the first
select_explicit_last(data, version, loader) ==
    LET hits == { i \in 1..Len(data) : explicit_match(data[i], version, loader) }
    IN  IF hits = {} THEN NoRelease
        ELSE data[CHOOSE i \in hits : \A j \in hits : j <= i]

\* mutant of select_explicit: the newest entry is the default of next(...),
\* as in download_resourcepack
select_explicit_or_first(data, version, loader) ==
    LET M(r) == explicit_match(r, version, loader)
    IN  first_or(data, M, data[1])

\* lines 280-294
select_explicit(data, version, loader) ==
    LET M(r) == explicit_match(r, version, loader)
    IN  first_or(data, M, NoRelease)

\* get_latest_version(mod_id, version, loader) on the answer ans of
\* get_mod_version(mod_id); latest is what get_latest_minecraft_version
\* returned (None when it could not be determined), read only when version
\* is unset
get_latest_version(ans, version, loader, latest) ==
    IF falsy(ans) THEN NoRelease
    ELSE IF ans.kind # "list" THEN NoRelease
    ELSE IF version = None
         THEN IF latest = None THEN NoRelease
              ELSE select_auto(ans.data, latest, loader)
         ELSE select_explicit(ans.data, version, loader)

\* download_modrinth.py, get_latest_version(mod_id): it subscripts every
\* entry without a check, so an entry that is not a dict or lacks a key it
\* reads raises before the first hit is reached
dm_bad_entry(r, version) ==
    ~r.isdict \/ ~r.has_gv \/ (version \in r.game_versions /\ ~r.has_loaders)

dm_raises(ans, version, loader) ==
    /\ ~falsy(ans)
    /\ LET M(r) == version \in r.game_versions /\ loader \in r.loaders
           B(r) == dm_bad_entry(r, version)
           hit == FirstIndex(ans.data, M)
           bad == FirstIndex(ans.data, B)
       IN  bad # 0 /\ (hit = 0 \/ bad < hit)

\* its result when it does not raise: the loader is compared exactly
dm_get_latest_version(ans, version, loader) ==
    IF falsy(ans) THEN NoRelease
    ELSE LET M(r) == /\ r.isdict /\ r.has_gv /\ r.has_loaders
                     /\ version \in r.game_versions /\ loader \in r.loaders
         IN  first_or(ans.data, M, NoRelease)

\* mutant of primary_file: the first file of the release
primary_file_first(r) ==
    IF r.files # <<>> THEN r.files[1] ELSE NoFile

\* lines 325-327: the file marked primary, None when there is none
primary_file(r) ==
    LET P(f) == f.primary IN first_or(r.files, P, NoFile)

\* lines 529-534: download_resourcepack falls back to the first file
rp_file(r) ==
    IF primary_file(r) # NoFile THEN primary_file(r)
    ELSE IF r.files # <<>> THEN r.files[1]
    ELSE NoFile

\* lines 482-513 of download_resourcepack: the loader is never compared, and
\* with an explicit version the first entry of the list is the default of
\* next(...)
rp_select(ans, version, latest) ==
    IF version = None
    THEN LET T(r) == r.isdict /\ r.has_gv /\ latest \in r.game_versions
         IN  first_or(ans.data, T, NoRelease)
    ELSE LET M(r) == r.isdict /\ r.has_gv /\ version \in r.game_versions
         IN  first_or(ans.data, M, ans.data[1])

(***************************************************************************)
(* The projects of the collection and what the catalog says about them.    *)
(***************************************************************************)
IdNames == <<"m1", "m2", "m3", "m4">>
RpNames == <<"r1", "r2", "r3", "r4", "r5", "r6", "r7", "r8">>

Mods == 1..NumMods
Rps == (NumMods + 1)..(NumMods + NumRps)
Projects == Mods \cup Rps

is_mod(p) == p \in Mods

\* the project id as a string
id_of(p) == IF is_mod(p) THEN <<IdNames[p]>> ELSE <<RpNames[p - NumMods]>>

V_NEW == "1.21"
V_OLD == "1.20"

FNew == File(<<"new", DOT, "jar">>, TRUE, "url_new")
FOld == File(<<"old", DOT, "jar">>, TRUE, "url_old")
FAlt == File(<<"alt", DOT, "jar">>, FALSE, "url_alt")

RNew == Release({V_NEW}, {"Fabric"}, <<FAlt, FNew>>)
ROld == Release({V_OLD}, {"fabric"}, <<FOld>>)
RNoPrimary == Release({V_NEW}, {"fabric"}, <<FAlt>>)
RNoLoaders == ReleaseNoLoaders({V_NEW}, <<FNew>>)
RNoFiles == Release({V_NEW}, {"fabric"}, <<>>)

\* what the catalog says about one project: whether the lookup of the
\* project itself succeeds (download_resourcepack line 438) and the answer
\* of get_mod_version
Entry(ok, ans) == [details |-> ok, versions |-> ans]

FullList == Entry(TRUE, Answer("list", <<RNew, ROld>>))

\* the catalog entries the runs are checked with
CatalogEntries ==
    { FullList,
      Entry(TRUE, NoAnswer),
      Entry(FALSE, Answer("list", <<RNew, ROld>>)),
      Entry(TRUE, Answer("list", <<ROld>>)),
      Entry(TRUE, Answer("list", <<RNoPrimary>>)),
      Entry(TRUE, Answer("list", <<Junk, RNoLoaders>>)),
      Entry(TRUE, Answer("list", <<Junk, ROld>>)),
      Entry(TRUE, Answer("list", <<RNoFiles>>)) }

\* args.loader
LOADER == "fabric"

\* what get_minecraft_versions()[0] can be; None when the lookup fails
LookupAnswers == {V_NEW, V_OLD, None}

\* the file names a mod project can be installed under before the first run
InstalledNames(p) ==
    { filename_with_id_of(f.filename, id_of(p)) : f \in {FNew, FOld} }

(***************************************************************************)
(* Directories: a function from the names present to their content, which  *)
(* is "orig" (there before the first run), the url it was fetched from, or *)
(* "partial" (a fetch that has not completed).                             *)
(***************************************************************************)
EmptyDir == [n \in {} |-> "orig"]

exists(d, n) == n \in DOMAIN d

\* a write of content c under name n
written(d, n, c) == [x \in DOMAIN d \cup {n} |-> IF x = n THEN c ELSE d[x]]

\* os.remove(n)
os_remove(d, n) == [x \in DOMAIN d \ {n} |-> d[x]]

\* os.replace(src, dst)
os_replace(d, src, dst) ==
    [x \in (DOMAIN d \ {src}) \cup {dst} |-> IF x = dst THEN d[src] ELSE d[x]]

\* get_existing_mods, lines 207-211: the id is the second-to-last segment;
\* names with fewer than two segments have none
has_id(n) == Len(split(n)) >= 2
id_in_name(n) == split(n)[Len(split(n)) - 1]

(***************************************************************************)
(* State.                                                                  *)
(***************************************************************************)
VARIABLES
    run,                    \* number of the current process run
    mainpc,                 \* where main is: "start", "mods", "rps", "done", "aborted"
    version,                \* args.version (None: not given)
    catalog,                \* project -> the answer of get_mod_version
    directory,              \* args.directory
    rp_directory,           \* ./resourcepacks
    existing_mods,          \* main's snapshot: mod -> its first listed file
    existing_resourcepacks, \* main's snapshot of the resource-pack names
    pc,                     \* project -> where its worker is
    res,                    \* project -> the outcome its worker is heading to
    ld,                     \* project -> the value read by a pending "+= 1"
    latest_mod,             \* project -> the release selected for it
    mc,                     \* project -> latest_mc_version of its worker
    stats,                  \* the shared counters
    cache,                  \* _latest_minecraft_version
    answers,                \* what get_minecraft_versions answered in this run
    fetches,                \* project -> calls of download_file in this run
    bumps,                  \* project -> outcome counters it stored in this run
    lookups,                \* calls of get_minecraft_versions in this run
    emitted,                \* calls of display_final_statistics in this run
    dir0,                   \* args.directory when the run started
    rpdir0,                 \* ./resourcepacks when the run started
    prev,                   \* how the previous run ended
    to_download,            \* the projects of the collection (mods_to_download
                            \* and resourcepacks_to_download)
    sel                     \* the input and result of the functions applied
                            \* alone (SpecSel, SpecNames)

vars == <<run, mainpc, version, catalog, directory, rp_directory, existing_mods,
          existing_resourcepacks, pc, res, ld, latest_mod, mc, stats, cache,
          answers, fetches, bumps, lookups, emitted, dir0, rpdir0, prev,
          to_download, sel>>

fs_vars == <<directory, rp_directory>>
env_vars == <<run, version, catalog, dir0, rpdir0, prev, to_download, sel>>
main_vars == <<mainpc, existing_mods, existing_resourcepacks, emitted>>
worker_vars == <<pc, res, ld, latest_mod, mc, stats, cache, answers, fetches,
                 bumps, lookups>>

NoName == <<>>

\* lines 10-26 (the per-kind counters mirror these and are never read)
ZeroStats ==
    [checked |-> 0, no_version |-> 0, already_exist |-> 0,
     updated |-> 0, downloaded |-> 0]

\* no previous run, or one that was killed, had a failed fetch, or got the
\* newest version wrong
NoPrev == "none"

NoSel == [phase |-> "off"]

\* the state of a freshly started process
ProcessStart ==
    /\ mainpc = "start"
    /\ existing_mods = [p \in Mods |-> NoName]
    /\ existing_resourcepacks = {}
    /\ pc = [p \in Projects |-> "queued"]
    /\ res = [p \in Projects |-> "none"]
    /\ ld = [p \in Projects |-> 0]
    /\ latest_mod = [p \in Projects |-> NoRelease]
    /\ mc = [p \in Projects |-> None]
    /\ stats = ZeroStats
    /\ cache = None
    /\ answers = {}
    /\ fetches = [p \in Projects |-> 0]
    /\ bumps = [p \in Projects |-> 0]
    /\ lookups = 0
    /\ emitted = 0

\* a mods directory in which each mod has no file, or one file under one of
\* the names the catalog's files give it
InitialDirs ==
    { [n \in { c[p] : p \in Mods } \ {NoName} |-> "orig"] :
        c \in { f \in [Mods -> {NoName} \cup UNION { InstalledNames(p) : p \in Mods }] :
                  \A p \in Mods : f[p] \in {NoName} \cup InstalledNames(p) } }

InitialRpDirs == { EmptyDir, [n \in {FNew.filename} |-> "orig"] }

\* the catalogs of the runs: every project has the full version list,
\* except at most one, which has any of the entries (a mod never reads
\* "details")
Catalogs ==
    { c \in { [p \in Projects |-> IF p = q THEN e ELSE FullList] :
                q \in Projects, e \in CatalogEntries } :
        \A p \in Mods : c[p].details }

\* the collection of the runs with mods: every mod and one resource pack
WithMods == Mods \cup {NumMods + 1}

\* a first run with --version V (None: without) on the collection S; what
\* the catalog says about other projects is never asked
InitWith(V, S) ==
    /\ run = 1
    /\ version = V
    /\ to_download = S
    /\ catalog \in Catalogs
    /\ \A p \in Projects \ S : catalog[p] = FullList
    /\ directory \in InitialDirs
    /\ rp_directory \in InitialRpDirs
    /\ dir0 = directory
    /\ rpdir0 = rp_directory
    /\ prev = NoPrev
    /\ sel = NoSel
    /\ ProcessStart

\* the script is run with --version 1.21
Init == InitWith(V_NEW, WithMods)

\* the script is run without --version
InitAuto == InitWith(None, WithMods)

(***************************************************************************)
(* What a worker derives from its arguments and its selected release.      *)
(***************************************************************************)
dir_of(p) == IF is_mod(p) THEN directory ELSE rp_directory

\* mutant of existing_mod: a resource pack has an installed file too, one
\* of the snapshot of ./resourcepacks, which its update removes
existing_mod_or_rp(p) ==
    IF is_mod(p) THEN existing_mods[p]
    ELSE IF existing_resourcepacks = {} THEN NoName
    ELSE CHOOSE n \in existing_resourcepacks : TRUE

\* line 305: the first entry of the snapshot with this id, NoName for None
existing_mod(p) == IF is_mod(p) THEN existing_mods[p] ELSE NoName

\* lines 325-327 and 529-534
file_to_download(p, rel) == IF is_mod(p) THEN primary_file(rel) ELSE rp_file(rel)

\* lines 345-348 (filename_with_id) and 550 (filename)
final_name(p, rel) ==
    IF is_mod(p)
    THEN filename_with_id_of(file_to_download(p, rel).filename, id_of(p))
    ELSE file_to_download(p, rel).filename

final_filename(p) == final_name(p, latest_mod[p])
temp_filename(p) == temp_of(final_filename(p))

Branch(to, outcome) == [pc |-> to, res |-> outcome]

\* mutant of on_exception: the exception leaves the worker function, and
\* the pool thread with it
on_exception_propagates == Branch("crashed", "exception")

\* lines 427-428 and 600-601: "except Exception" around the whole body of
\* the worker prints and the worker returns
on_exception == Branch("done", "exception")

\* mutant of mod_after_select: the file is fetched although the installed
\* file has the target name
mod_after_select_fetch_anyway(p, rel) ==
    IF ~rel.truthy THEN Branch("cnt_r", "no_version")
    ELSE IF file_to_download(p, rel) = NoFile THEN Branch("cnt_r", "no_version")
    ELSE IF existing_mod(p) # NoName /\ existing_mod(p) = final_name(p, rel)
         THEN Branch("fetch", "already_exist")
    ELSE IF ~rel.has_loaders \/ ~rel.has_gv THEN on_exception
    ELSE Branch("fetch", "none")

\* mutant of mod_after_select: without a release the worker raises
mod_after_select_none_raises(p, rel) ==
    IF ~rel.truthy THEN on_exception
    ELSE IF file_to_download(p, rel) = NoFile THEN Branch("cnt_r", "no_version")
    ELSE IF existing_mod(p) # NoName /\ existing_mod(p) = final_name(p, rel)
         THEN Branch("cnt_r", "already_exist")
    ELSE IF ~rel.has_loaders \/ ~rel.has_gv THEN on_exception
    ELSE Branch("fetch", "none")

\* download_mod from line 308 to line 374, for the selected release rel:
\* the counter it goes on to increment, or the fetch, or the KeyError of
\* line 370 when rel has no "loaders" or no "game_versions" key
mod_after_select(p, rel) ==
    IF ~rel.truthy THEN Branch("cnt_r", "no_version")
    ELSE IF file_to_download(p, rel) = NoFile THEN Branch("cnt_r", "no_version")
    ELSE IF existing_mod(p) # NoName /\ existing_mod(p) = final_name(p, rel)
         THEN Branch("cnt_r", "already_exist")
    ELSE IF ~rel.has_loaders \/ ~rel.has_gv THEN on_exception
    ELSE Branch("fetch", "none")

\* download_resourcepack from line 515 to line 574: a selected entry that is
\* not a dict raises at line 530
rp_after_select(p, rel) ==
    IF ~rel.truthy THEN Branch("cnt_r", "no_version")
    ELSE IF ~rel.isdict THEN on_exception
    ELSE IF file_to_download(p, rel) = NoFile THEN Branch("cnt_r", "no_version")
    ELSE IF final_name(p, rel) \in existing_resourcepacks
         THEN Branch("cnt_r", "already_exist")
    ELSE Branch("fetch", "none")

after_select(p, rel) ==
    IF is_mod(p) THEN mod_after_select(p, rel) ELSE rp_after_select(p, rel)

\* the selection of either worker once the newest version is known (or not
\* needed)
selected(p, latest) ==
    IF is_mod(p) THEN get_latest_version(catalog[p].versions, version, LOADER, latest)
    ELSE IF version = None /\ latest = None THEN NoRelease
    ELSE rp_select(catalog[p].versions, version, latest)

\* the worker of p goes on with release rel
GoOn(p, rel) ==
    /\ latest_mod' = [latest_mod EXCEPT ![p] = rel]
    /\ pc' = [pc EXCEPT ![p] = after_select(p, rel).pc]
    /\ res' = [res EXCEPT ![p] = after_select(p, rel).res]

\* the counter a pending "+= 1" of p is on
counter_of(p) == IF pc[p] \in {"chk_r", "chk_w"} THEN "checked" ELSE res[p]

(***************************************************************************)
(* main                                                                    *)
(***************************************************************************)
\* the first-listed file of every mod id in some os.listdir order of d
Scans(d) ==
    { f \in [Mods -> {NoName} \cup DOMAIN d] :
        \A p \in Mods :
            LET mine == { n \in DOMAIN d : has_id(n) /\ id_in_name(n) = id_of(p) }
            IN  IF mine = {} THEN f[p] = NoName ELSE f[p] \in mine }

\* mutant of Main_Collect: a failed collection lookup is counted as an
\* unresolved project
Main_Collect_counts ==
    /\ mainpc = "start"
    /\ \/ /\ mainpc' = "aborted"
          /\ stats' = [stats EXCEPT !.no_version = @ + 1]
          /\ UNCHANGED existing_mods
       \/ /\ mainpc' = "mods"
          /\ existing_mods' \in Scans(directory)
          /\ UNCHANGED stats
    /\ UNCHANGED <<existing_resourcepacks, emitted>>
    /\ UNCHANGED <<pc, res, ld, latest_mod, mc, cache, answers, fetches, bumps, lookups>>
    /\ UNCHANGED fs_vars
    /\ UNCHANGED env_vars

\* lines 662-697: the collection lookup fails and main returns, or it gives
\* the projects and main takes the snapshot of the mods directory
Main_Collect ==
    /\ mainpc = "start"
    /\ \/ /\ mainpc' = "aborted"
          /\ UNCHANGED existing_mods
       \/ /\ mainpc' = "mods"
          /\ existing_mods' \in Scans(directory)
    /\ UNCHANGED <<existing_resourcepacks, emitted>>
    /\ UNCHANGED worker_vars
    /\ UNCHANGED fs_vars
    /\ UNCHANGED env_vars

\* lines 714-719: the mods pool has shut down (every mod worker returned);
\* main lists ./resourcepacks and submits the resource packs
Main_ModsDone ==
    /\ mainpc = "mods"
    /\ \A p \in Mods \cap to_download : pc[p] = "done"
    /\ mainpc' = "rps"
    /\ existing_resourcepacks' = DOMAIN rp_directory
    /\ UNCHANGED <<existing_mods, emitted>>
    /\ UNCHANGED worker_vars
    /\ UNCHANGED fs_vars
    /\ UNCHANGED env_vars

\* mutant of Main_Statistics: the statistics are displayed without waiting
\* for the resource-pack pool
Main_Statistics_early ==
    /\ mainpc = "rps"
    /\ mainpc' = "done"
    /\ emitted' = emitted + 1
    /\ UNCHANGED <<existing_mods, existing_resourcepacks>>
    /\ UNCHANGED worker_vars
    /\ UNCHANGED fs_vars
    /\ UNCHANGED env_vars

\* lines 732-735: the resource-pack pool has shut down; the statistics are
\* displayed
Main_Statistics ==
    /\ mainpc = "rps"
    /\ \A p \in Rps \cap to_download : pc[p] = "done"
    /\ mainpc' = "done"
    /\ emitted' = emitted + 1
    /\ UNCHANGED <<existing_mods, existing_resourcepacks>>
    /\ UNCHANGED worker_vars
    /\ UNCHANGED fs_vars
    /\ UNCHANGED env_vars

(***************************************************************************)
(* The pool and the workers                                                *)
(***************************************************************************)
phase_of(p) == IF is_mod(p) THEN "mods" ELSE "rps"

running == { q \in Projects : pc[q] \notin {"queued", "done"} }

\* a pool thread takes the next work item: executor.map submitted them in
\* list order and at most max_workers threads exist
Start(p) ==
    /\ mainpc = phase_of(p)
    /\ p \in to_download
    /\ pc[p] = "queued"
    /\ \A q \in Projects : (phase_of(q) = phase_of(p) /\ q < p) => pc[q] # "queued"
    /\ Cardinality(running) < max_workers
    /\ pc' = [pc EXCEPT ![p] = "chk_r"]
    /\ UNCHANGED <<res, ld, latest_mod, mc, stats, cache, answers, fetches, bumps, lookups>>
    /\ UNCHANGED fs_vars
    /\ UNCHANGED main_vars
    /\ UNCHANGED env_vars

\* stats[k] += 1, first half: the value of stats[k] is read
ReadCounter(p) ==
    /\ pc[p] \in {"chk_r", "cnt_r"}
    /\ ld' = [ld EXCEPT ![p] = stats[counter_of(p)]]
    /\ pc' = [pc EXCEPT ![p] = IF pc[p] = "chk_r" THEN "chk_w" ELSE "cnt_w"]
    /\ UNCHANGED <<res, latest_mod, mc, stats, cache, answers, fetches, bumps, lookups>>
    /\ UNCHANGED fs_vars
    /\ UNCHANGED main_vars
    /\ UNCHANGED env_vars

\* stats[k] += 1, second half: the value read plus one is stored.  After
\* total_checked the worker resolves its project (lines 302-307, 434-438);
\* after an outcome counter it returns.
WriteCounter(p) ==
    /\ pc[p] \in {"chk_w", "cnt_w"}
    /\ stats' = [stats EXCEPT ![counter_of(p)] = ld[p] + 1]
    /\ ld' = [ld EXCEPT ![p] = 0]
    /\ pc' = [pc EXCEPT ![p] = IF pc[p] = "chk_w" THEN "resolve" ELSE "done"]
    /\ bumps' = [bumps EXCEPT ![p] = IF pc[p] = "cnt_w" THEN @ + 1 ELSE @]
    /\ UNCHANGED <<res, latest_mod, mc, cache, answers, fetches, lookups>>
    /\ UNCHANGED fs_vars
    /\ UNCHANGED main_vars
    /\ UNCHANGED env_vars

\* get_latest_version calls get_latest_minecraft_version: version is unset
\* and the version list of the project is a non-empty list
needs_latest_mc(p) ==
    /\ version = None
    /\ ~falsy(catalog[p].versions)
    /\ catalog[p].versions.kind = "list"

\* download_mod, line 307: get_latest_version up to the newest-version
\* lookup, or to its result when that lookup is not needed
Resolve_mod(p) ==
    /\ is_mod(p)
    /\ pc[p] = "resolve"
    /\ IF needs_latest_mc(p)
       THEN /\ pc' = [pc EXCEPT ![p] = "mc_check"]
            /\ UNCHANGED <<res, latest_mod>>
       ELSE GoOn(p, selected(p, None))
    /\ UNCHANGED <<ld, mc, stats, cache, answers, fetches, bumps, lookups>>
    /\ UNCHANGED fs_vars
    /\ UNCHANGED main_vars
    /\ UNCHANGED env_vars

\* download_resourcepack, lines 438-489: the project lookup (which may fail,
\* lines 439-443), the version list, and the selection when the newest
\* version is not needed
Resolve_rp(p) ==
    /\ ~is_mod(p)
    /\ pc[p] = "resolve"
    /\ IF \/ ~catalog[p].details
          \/ falsy(catalog[p].versions)
          \/ catalog[p].versions.kind # "list"
       THEN GoOn(p, NoRelease)
       ELSE IF version = None
            THEN /\ pc' = [pc EXCEPT ![p] = "mc_check"]
                 /\ UNCHANGED <<res, latest_mod>>
            ELSE GoOn(p, selected(p, None))
    /\ UNCHANGED <<ld, mc, stats, cache, answers, fetches, bumps, lookups>>
    /\ UNCHANGED fs_vars
    /\ UNCHANGED main_vars
    /\ UNCHANGED env_vars

\* get_latest_minecraft_version, lines 77-78: the cached value is returned
\* when there is one
Mc_Check(p) ==
    /\ pc[p] = "mc_check"
    /\ IF cache # None
       THEN /\ mc' = [mc EXCEPT ![p] = cache]
            /\ GoOn(p, selected(p, cache))
       ELSE /\ pc' = [pc EXCEPT ![p] = "mc_lookup"]
            /\ UNCHANGED <<mc, res, latest_mod>>
    /\ UNCHANGED <<ld, stats, cache, answers, fetches, bumps, lookups>>
    /\ UNCHANGED fs_vars
    /\ UNCHANGED main_vars
    /\ UNCHANGED env_vars

\* lines 80-84: the version catalog is asked; a non-empty answer is stored
\* in the global, a failed lookup returns None and stores nothing
Mc_Lookup(p) ==
    /\ pc[p] = "mc_lookup"
    /\ lookups' = lookups + 1
    /\ \E a \in LookupAnswers :
        /\ answers' = answers \cup {a}
        /\ IF a # None
           THEN /\ cache' = a
                /\ pc' = [pc EXCEPT ![p] = "mc_ret"]
                /\ UNCHANGED <<mc, res, latest_mod>>
           ELSE /\ GoOn(p, selected(p, None))
                /\ UNCHANGED <<mc, cache>>
    /\ UNCHANGED <<ld, stats, fetches, bumps>>
    /\ UNCHANGED fs_vars
    /\ UNCHANGED main_vars
    /\ UNCHANGED env_vars

\* line 83: "return _latest_minecraft_version" reads the global again
Mc_Return(p) ==
    /\ pc[p] = "mc_ret"
    /\ mc' = [mc EXCEPT ![p] = cache]
    /\ GoOn(p, selected(p, cache))
    /\ UNCHANGED <<ld, stats, cache, answers, fetches, bumps, lookups>>
    /\ UNCHANGED fs_vars
    /\ UNCHANGED main_vars
    /\ UNCHANGED env_vars

\* the directory of p's kind becomes d
SetDir(p, d) ==
    IF is_mod(p)
    THEN directory' = d /\ UNCHANGED rp_directory
    ELSE rp_directory' = d /\ UNCHANGED directory

\* download_file, lines 41-46 and 375-378: urlretrieve fails before it has
\* opened the destination, or opens it and starts writing
Fetch_Begin(p) ==
    /\ pc[p] = "fetch"
    /\ fetches' = [fetches EXCEPT ![p] = @ + 1]
    /\ \/ /\ SetDir(p, written(dir_of(p), temp_filename(p), "partial"))
          /\ pc' = [pc EXCEPT ![p] = "fetching"]
       \/ /\ UNCHANGED fs_vars
          /\ pc' = [pc EXCEPT ![p] = "cleanup"]
    /\ UNCHANGED <<res, ld, latest_mod, mc, stats, cache, answers, bumps, lookups>>
    /\ UNCHANGED main_vars
    /\ UNCHANGED env_vars

\* urlretrieve writes the rest of the file it opened at temp: under that
\* name if it is still there; under final if another worker has renamed the
\* open file to it meanwhile; nowhere if the open file was unlinked
completed(d, temp, final, content) ==
    IF exists(d, temp) THEN written(d, temp, content)
    ELSE IF exists(d, final) /\ d[final] = "partial" THEN written(d, final, content)
    ELSE d

\* urlretrieve completes the temporary file, or fails mid-stream and raises
Fetch_End(p) ==
    /\ pc[p] = "fetching"
    /\ \/ /\ SetDir(p, completed(dir_of(p), temp_filename(p), final_filename(p),
                                file_to_download(p, latest_mod[p]).url))
          /\ pc' = [pc EXCEPT ![p] = "rename"]
       \/ /\ UNCHANGED fs_vars
          /\ pc' = [pc EXCEPT ![p] = "cleanup"]
    /\ UNCHANGED <<res, ld, latest_mod, mc, stats, cache, answers, fetches, bumps, lookups>>
    /\ UNCHANGED main_vars
    /\ UNCHANGED env_vars

\* mutant of cleaned: the except branch returns without the removal
cleaned_not(d, temp) == d

\* lines 381-383 and 581-583: the temporary file is removed if it exists
cleaned(d, temp) == IF exists(d, temp) THEN os_remove(d, temp) ELSE d

\* mutant of Cleanup: after the removal of the temporary file the fetch is
\* tried again
Cleanup_retries(p) ==
    /\ pc[p] = "cleanup"
    /\ SetDir(p, cleaned(dir_of(p), temp_filename(p)))
    /\ pc' = [pc EXCEPT ![p] = "fetch"]
    /\ UNCHANGED <<res, ld, latest_mod, mc, stats, cache, answers, fetches, bumps, lookups>>
    /\ UNCHANGED main_vars
    /\ UNCHANGED env_vars

\* mutant of Cleanup: the except branch removes the temporary file and
\* then waits instead of returning
Cleanup_waits(p) ==
    /\ pc[p] = "cleanup"
    /\ SetDir(p, cleaned(dir_of(p), temp_filename(p)))
    /\ pc' = [pc EXCEPT ![p] = "waiting"]
    /\ res' = [res EXCEPT ![p] = "failed"]
    /\ UNCHANGED <<ld, latest_mod, mc, stats, cache, answers, fetches, bumps, lookups>>
    /\ UNCHANGED main_vars
    /\ UNCHANGED env_vars

\* lines 379-384 and 579-584: the except branch of the fetch, which returns
Cleanup(p) ==
    /\ pc[p] = "cleanup"
    /\ SetDir(p, cleaned(dir_of(p), temp_filename(p)))
    /\ pc' = [pc EXCEPT ![p] = "done"]
    /\ res' = [res EXCEPT ![p] = "failed"]
    /\ UNCHANGED <<ld, latest_mod, mc, stats, cache, answers, fetches, bumps, lookups>>
    /\ UNCHANGED main_vars
    /\ UNCHANGED env_vars

\* mutant of update_call: the old file is removed first, the temporary file
\* renamed second
update_call_remove_first(d, p, at) ==
    IF at = "rename"
    THEN IF existing_mod(p) # NoName
         THEN os_remove(d, existing_mod(p))
         ELSE os_replace(d, temp_filename(p), final_filename(p))
    ELSE os_replace(d, temp_filename(p), final_filename(p))

\* mutant of update_call: the old file is never removed
update_call_keep_old(d, p, at) ==
    IF at = "rename"
    THEN os_replace(d, temp_filename(p), final_filename(p))
    ELSE d

\* lines 390-394: the two filesystem calls of an update, in program order:
\* at "rename" os.replace(temp_filename, final_filename), at "remove"
\* os.remove(existing_file_path)
update_call(d, p, at) ==
    IF at = "rename"
    THEN os_replace(d, temp_filename(p), final_filename(p))
    ELSE os_remove(d, existing_mod(p))

\* the file the call at this point needs; without it the call raises
update_needs(p, at) ==
    IF at = "rename" THEN temp_filename(p) ELSE existing_mod(p)

\* lines 387-392, 411, 587: os.replace; of an update the removal follows,
\* of a first download the "downloaded" counter
Rename(p) ==
    /\ pc[p] = "rename"
    /\ IF ~exists(dir_of(p), update_needs(p, "rename"))
       THEN /\ pc' = [pc EXCEPT ![p] = on_exception.pc]
            /\ res' = [res EXCEPT ![p] = on_exception.res]
            /\ UNCHANGED fs_vars
       ELSE /\ SetDir(p, update_call(dir_of(p), p, "rename"))
            /\ IF existing_mod(p) # NoName
               THEN /\ pc' = [pc EXCEPT ![p] = "remove"]
                    /\ UNCHANGED res
               ELSE /\ pc' = [pc EXCEPT ![p] = "cnt_r"]
                    /\ res' = [res EXCEPT ![p] = "downloaded"]
    /\ UNCHANGED <<ld, latest_mod, mc, stats, cache, answers, fetches, bumps, lookups>>
    /\ UNCHANGED main_vars
    /\ UNCHANGED env_vars

\* line 394: os.remove of the old file, then the "updated" counter
Remove(p) ==
    /\ pc[p] = "remove"
    /\ IF ~exists(dir_of(p), update_needs(p, "remove"))
       THEN /\ pc' = [pc EXCEPT ![p] = on_exception.pc]
            /\ res' = [res EXCEPT ![p] = on_exception.res]
            /\ UNCHANGED fs_vars
       ELSE /\ SetDir(p, update_call(dir_of(p), p, "remove"))
            /\ pc' = [pc EXCEPT ![p] = "cnt_r"]
            /\ res' = [res EXCEPT ![p] = "updated"]
    /\ UNCHANGED <<ld, latest_mod, mc, stats, cache, answers, fetches, bumps, lookups>>
    /\ UNCHANGED main_vars
    /\ UNCHANGED env_vars

(***************************************************************************)
(* Runs                                                                    *)
(***************************************************************************)
\* a new process is started on the directories as they are
Restart(how) ==
    /\ run < MaxRuns
    /\ run' = run + 1
    /\ prev' = how
    /\ dir0' = directory
    /\ rpdir0' = rp_directory
    /\ mainpc' = "start"
    /\ existing_mods' = [p \in Mods |-> NoName]
    /\ existing_resourcepacks' = {}
    /\ pc' = [p \in Projects |-> "queued"]
    /\ res' = [p \in Projects |-> "none"]
    /\ ld' = [p \in Projects |-> 0]
    /\ latest_mod' = [p \in Projects |-> NoRelease]
    /\ mc' = [p \in Projects |-> None]
    /\ stats' = ZeroStats
    /\ cache' = None
    /\ answers' = {}
    /\ fetches' = [p \in Projects |-> 0]
    /\ bumps' = [p \in Projects |-> 0]
    /\ lookups' = 0
    /\ emitted' = 0
    /\ UNCHANGED <<version, catalog, to_download, sel>>
    /\ UNCHANGED fs_vars

\* the run was complete, no fetch of it failed and every newest-version
\* lookup of it answered V_NEW
clean_run ==
    /\ mainpc = "done"
    /\ \A p \in Projects : res[p] # "failed"
    /\ answers \subseteq {V_NEW}

\* main returned (after the statistics, or after a failed collection
\* lookup) and the script is run again
NextRun ==
    /\ mainpc \in {"done", "aborted"}
    /\ Restart(IF clean_run THEN "clean" ELSE NoPrev)

\* the script is run again after a clean run
RunAgain ==
    /\ clean_run
    /\ Restart("clean")

\* the process is killed while the pools are at work, and the script is
\* run again
Kill ==
    /\ mainpc \in {"mods", "rps"}
    /\ Restart(NoPrev)

\* one run of the script, from main's start to its return
Next ==
    \/ Main_Collect
    \/ Main_ModsDone
    \/ Main_Statistics
    \/ \E p \in Projects : Start(p)
    \/ \E p \in Projects : ReadCounter(p)
    \/ \E p \in Projects : WriteCounter(p)
    \/ \E p \in Projects : Resolve_mod(p)
    \/ \E p \in Projects : Resolve_rp(p)
    \/ \E p \in Projects : Fetch_Begin(p)
    \/ \E p \in Projects : Fetch_End(p)
    \/ \E p \in Projects : Cleanup(p)
    \/ \E p \in Projects : Rename(p)
    \/ \E p \in Projects : Remove(p)

\* one run with --version 1.21
Spec == Init /\ [][Next]_vars

\* runs with --version 1.21, killed at any point or completed, and repeated
NextCrash ==
    \/ Next
    \/ NextRun
    \/ Kill

SpecCrash == Init /\ [][NextCrash]_vars

\* one run with --version 1.21 on a collection of two resource packs
InitRp ==
    /\ InitWith(V_NEW, {NumMods + 1, NumMods + 2})
    /\ directory = EmptyDir

NextRp ==
    \/ Main_Collect
    \/ Main_ModsDone
    \/ Main_Statistics
    \/ \E p \in Projects : Start(p)
    \/ \E p \in Projects : ReadCounter(p)
    \/ \E p \in Projects : WriteCounter(p)
    \/ \E p \in Projects : Resolve_rp(p)
    \/ \E p \in Projects : Fetch_Begin(p)
    \/ \E p \in Projects : Fetch_End(p)
    \/ \E p \in Projects : Cleanup(p)
    \/ \E p \in Projects : Rename(p)

SpecRp == InitRp /\ [][NextRp]_vars

\* one run with --version 1.21 on a collection of one mod and more
\* resource packs than the pool has threads, none of which has a release
InitPool ==
    /\ run = 1
    /\ version = V_NEW
    /\ to_download = {1} \cup Rps
    /\ catalog = [p \in Projects |-> Entry(TRUE, NoAnswer)]
    /\ directory = EmptyDir
    /\ rp_directory = EmptyDir
    /\ dir0 = directory
    /\ rpdir0 = rp_directory
    /\ prev = NoPrev
    /\ sel = NoSel
    /\ ProcessStart

NextPool ==
    \/ Main_Collect
    \/ Main_ModsDone
    \/ Main_Statistics
    \/ \E p \in Projects : Start(p)
    \/ \E p \in Projects : ReadCounter(p)
    \/ \E p \in Projects : WriteCounter(p)
    \/ \E p \in Projects : Resolve_mod(p)
    \/ \E p \in Projects : Resolve_rp(p)

SpecPool == InitPool /\ [][NextPool]_vars

\* one run with --version 1.21 on a collection of one mod, installed under
\* the name of its 1.20 file, and two resource packs; every call returns
\* and a step that can be taken is eventually taken
InitLive ==
    /\ run = 1
    /\ version = V_NEW
    /\ to_download = {1, NumMods + 1, NumMods + 2}
    /\ catalog = [p \in Projects |-> FullList]
    /\ directory = [n \in {filename_with_id_of(FOld.filename, id_of(1))} |-> "orig"]
    /\ rp_directory = EmptyDir
    /\ dir0 = directory
    /\ rpdir0 = rp_directory
    /\ prev = NoPrev
    /\ sel = NoSel
    /\ ProcessStart

SpecLive == InitLive /\ [][Next]_vars /\ WF_vars(Next)

\* runs without --version, repeated after a clean run
NextAuto ==
    \/ Next
    \/ \E p \in Projects : Mc_Check(p)
    \/ \E p \in Projects : Mc_Lookup(p)
    \/ \E p \in Projects : Mc_Return(p)
    \/ RunAgain

SpecAuto == InitAuto /\ [][NextAuto]_vars

(***************************************************************************)
(* Properties                                                              *)
(***************************************************************************)
\* the worker of mod p is on the Updated path: a file of its id is installed
\* and it has gone on to fetch another one
updating(p) ==
    /\ is_mod(p)
    /\ existing_mod(p) # NoName
    /\ \/ pc[p] \in {"fetch", "fetching", "cleanup", "rename", "remove"}
       \/ res[p] \in {"failed", "updated"}

old_present(p) == exists(directory, existing_mod(p))
new_present(p) == exists(directory, final_filename(p))

\* C1: on the Updated path of download_mod the new file is renamed into
\* place before the old file is removed: in every state from the start of
\* an update to its end (each one a state a crash can leave behind) the old
\* file or the new file is in the directory, the old file is gone only when
\* the new one is there, and between the rename and the removal both are.
C1_RenameBeforeRemove ==
    \A p \in Mods :
        updating(p) =>
            /\ old_present(p) \/ new_present(p)
            /\ ~old_present(p) => (new_present(p) /\ res[p] = "updated")
            /\ pc[p] = "remove" => (old_present(p) /\ new_present(p))

\* C1 witness: an update stands between its rename and its removal
C1_Witness ==
    \E p \in Mods :
        /\ updating(p) /\ pc[p] = "remove"
        /\ old_present(p) /\ new_present(p)
        /\ directory[final_filename(p)] = "url_new"

\* C2: when the fetch fails download_mod returns with the temporary file
\* absent, nothing created under the final name and the installed file of
\* the id (if any) still there with the content it had.
C2_FailedFetchMutatesNothing ==
    \A p \in Mods :
        (pc[p] = "done" /\ res[p] = "failed") =>
            /\ ~exists(directory, temp_filename(p))
            /\ exists(directory, final_filename(p)) =>
                  /\ exists(dir0, final_filename(p))
                  /\ directory[final_filename(p)] = dir0[final_filename(p)]
            /\ existing_mod(p) # NoName =>
                  /\ exists(directory, existing_mod(p))
                  /\ directory[existing_mod(p)] = dir0[existing_mod(p)]

\* C2 witness: a failed update and a failed first download, both returned
C2_Witness ==
    /\ \E p \in Mods :
          /\ pc[p] = "done" /\ res[p] = "failed" /\ fetches[p] = 1
          /\ existing_mod(p) # NoName
          /\ directory[existing_mod(p)] = "orig"
    /\ \E p \in Mods :
          /\ pc[p] = "done" /\ res[p] = "failed" /\ fetches[p] = 1
          /\ existing_mod(p) = NoName

\* at most one name of d maps to each id
unique_mapping(d) ==
    \A n1, n2 \in DOMAIN d :
        (has_id(n1) /\ has_id(n2) /\ id_in_name(n1) = id_in_name(n2)) => n1 = n2

\* C3: a run of main that completes, started on a mods directory in which
\* at most one file maps to each id, ends with at most one file mapping to
\* each id, whatever the interleaving and whichever fetches fail.
C3_UniqueMappingKept ==
    (mainpc = "done" /\ unique_mapping(dir0)) => unique_mapping(directory)

\* C3 witness: such a run has updated one mod, and failed to fetch or
\* newly downloaded another
C3_Witness ==
    /\ mainpc = "done" /\ unique_mapping(dir0)
    /\ \E p \in Mods : res[p] = "updated" /\ ~old_present(p) /\ new_present(p)
    /\ \E p \in Mods : res[p] \in {"failed", "downloaded"}

\* the project has a desired artifact: a release was selected for it and a
\* file of the release chosen
has_desired(p) ==
    /\ latest_mod[p].truthy
    /\ latest_mod[p].isdict
    /\ file_to_download(p, latest_mod[p]) # NoFile

\* C4: when main is run twice in succession with the same catalog answers
\* and no fetch of the first run fails, the second run ends AlreadyCurrent
\* for every project that has a desired artifact, calls download_file for
\* no project, and leaves both directories as the first run left them.
C4_SecondRunAlreadyCurrent ==
    (run = 2 /\ prev = "clean" /\ clean_run) =>
        /\ \A p \in Projects : has_desired(p) => res[p] = "already_exist"
        /\ \A p \in Projects : fetches[p] = 0
        /\ directory = dir0
        /\ rp_directory = rpdir0

\* no entry of the project's version list supports the requested version
no_support(p) ==
    /\ version # None
    /\ catalog[p].versions.kind = "list"
    /\ catalog[p].versions.data # <<>>
    /\ \A i \in 1..Len(catalog[p].versions.data) :
          LET r == catalog[p].versions.data[i]
          IN  ~(r.isdict /\ r.has_gv /\ version \in r.game_versions)

files_of(p, d) ==
    IF is_mod(p)
    THEN { n \in DOMAIN d : has_id(n) /\ id_in_name(n) = id_of(p) }
    ELSE DOMAIN d

\* the worker of p fetches nothing, writes nothing and ends Unresolved
ends_unresolved(p) ==
    /\ fetches[p] = 0
    /\ pc[p] \notin {"fetch", "fetching", "cleanup", "rename", "remove"}
    /\ pc[p] = "done" => (res[p] = "no_version" /\ bumps[p] = 1)
    /\ files_of(p, dir_of(p)) = files_of(p, IF is_mod(p) THEN dir0 ELSE rpdir0)

desired_release(p) == get_latest_version(catalog[p].versions, version, LOADER, None)
desired_file(p) == primary_file(desired_release(p))
desired_name(p) == filename_with_id_of(desired_file(p).filename, id_of(p))

\* the files of mod p a completed run must leave, as a function of the
\* directory at the start, the catalog and whether p's fetch failed
expected_files(p) ==
    IF \/ ~desired_release(p).truthy
       \/ desired_file(p) = NoFile
       \/ res[p] = "failed"
       \/ desired_name(p) \in files_of(p, dir0)
    THEN [n \in files_of(p, dir0) |-> dir0[n]]
    ELSE [n \in {desired_name(p)} |-> desired_file(p).url]

\* C12: the mods directory a completed run leaves is a function of the
\* directory at the start, the catalog answers and the fetch results; the
\* scheduling of the workers has no part in it.
C12_FinalDirectoryDeterministic ==
    mainpc = "done" =>
        /\ DOMAIN directory = UNION { DOMAIN expected_files(p) : p \in Mods }
        /\ \A p \in Mods : \A n \in DOMAIN expected_files(p) :
              directory[n] = expected_files(p)[n]

\* C12 witness: a completed run in which two mod workers overlapped (an
\* increment of total_checked was lost between them), one updating and one
\* downloading
C12_Witness ==
    /\ mainpc = "done"
    /\ stats.checked < Cardinality(to_download)
    /\ \E p, q \in Mods : res[p] = "updated" /\ res[q] = "downloaded"
    /\ directory # dir0

\* name n is the display name with the id inserted before its last
\* dot-delimited segment
named_by_insertion(n, display, id) ==
    \E k \in 1..Len(display) :
        /\ display[k] = DOT
        /\ \A j \in (k + 1)..Len(display) : display[j] # DOT
        /\ n = SubSeq(display, 1, k) \o id \o <<DOT>>
                  \o SubSeq(display, k + 1, Len(display))

\* C13: a mod that has a desired artifact and whose fetch and filesystem
\* calls succeed ends Downloaded, its directory having gained exactly the
\* file named by inserting the id before the extension, when no file of
\* its id was installed; and ends Updated, the target present and the old
\* file absent, when a file of another name was installed.
C13_DownloadedOrUpdated ==
    \A p \in Mods :
        (pc[p] = "done" /\ has_desired(p) /\ res[p] # "failed") =>
            /\ existing_mod(p) = NoName =>
                  /\ res[p] = "downloaded"
                  /\ \E n \in DOMAIN directory :
                        /\ files_of(p, directory) \ files_of(p, dir0) = {n}
                        /\ named_by_insertion(
                              n, file_to_download(p, latest_mod[p]).filename, id_of(p))
            /\ (existing_mod(p) # NoName /\ existing_mod(p) # final_filename(p)) =>
                  /\ res[p] = "updated"
                  /\ exists(directory, final_filename(p))
                  /\ ~exists(directory, existing_mod(p))

\* the names a fetch is written under: a final name with ".tmp" appended
is_temp_name(n) == Len(n) >= 2 /\ SubSeq(n, Len(n) - 1, Len(n)) = <<DOT, "tmp">>

\* C14: in every state of a run, every file of the mods directory and of
\* the resource-pack directory that is not under a ".tmp" name is complete.
C14_NoPartialFinal ==
    /\ \A n \in DOMAIN directory : directory[n] = "partial" => is_temp_name(n)
    /\ \A n \in DOMAIN rp_directory : rp_directory[n] = "partial" => is_temp_name(n)

\* C15: two workers that are past the derivation of their temporary paths
\* at the same time have different temporary paths.
C15_DistinctTempPaths ==
    \A p, q \in to_download :
        (/\ p # q
         /\ phase_of(p) = phase_of(q)
         /\ pc[p] \in {"fetch", "fetching", "cleanup", "rename"}
         /\ pc[q] \in {"fetch", "fetching", "cleanup", "rename"}) =>
            temp_filename(p) # temp_filename(q)

\* the files of d whose name has the id of p among its segments (its
\* installed file, its target and its temporary file), with their content
named_for(p, d) ==
    LET mine == { n \in DOMAIN d :
                    \E i \in 1..Len(split(n)) : split(n)[i] = id_of(p) }
    IN  [n \in mine |-> d[n]]

\* C16: a worker of download_mod that is heading to, or has ended with,
\* Unresolved or AlreadyCurrent has fetched nothing, and the files of its
\* mod are those the run started with.
C16_NoMutationWhenNothingToDo ==
    \A p \in Mods :
        res[p] \in {"no_version", "already_exist"} =>
            /\ fetches[p] = 0
            /\ pc[p] \in {"cnt_r", "cnt_w", "done"}
            /\ named_for(p, directory) = named_for(p, dir0)

\* C16 witness: one mod has ended Unresolved and the other AlreadyCurrent,
\* its installed file in place
C16_Witness ==
    \E p, q \in Mods :
        /\ pc[p] = "done" /\ res[p] = "no_version"
        /\ pc[q] = "done" /\ res[q] = "already_exist"
        /\ exists(directory, existing_mod(q))
        /\ existing_mod(q) = final_filename(q)

\* the worker of p has its selected release and has gone on from it
past_selection(p) ==
    /\ p \in to_download
    /\ pc[p] \notin {"queued", "chk_r", "chk_w", "resolve",
                     "mc_check", "mc_lookup", "mc_ret"}
    /\ latest_mod[p].truthy
    /\ latest_mod[p].isdict

\* the worker of p goes on with file f of its release: it is not heading
\* to Unresolved, and what it has installed is that file
chosen_file(p, f) ==
    /\ res[p] # "no_version"
    /\ res[p] \in {"downloaded", "updated"} =>
          \E n \in DOMAIN dir_of(p) :
              /\ dir_of(p)[n] = f.url
              /\ IF is_mod(p) THEN named_by_insertion(n, f.filename, id_of(p))
                 ELSE n = f.filename

\* C18: of the selected release the first file marked primary is chosen;
\* when none is primary, download_mod ends Unresolved and fetches nothing,
\* and download_resourcepack chooses the first file, ending Unresolved only
\* when the release has no file.
C18_FileSelection ==
    \A p \in Projects :
        past_selection(p) =>
            LET files == latest_mod[p].files
                prim == { i \in 1..Len(files) : files[i].primary }
            IN  /\ prim # {} =>
                      chosen_file(p, files[CHOOSE i \in prim : \A j \in prim : i <= j])
                /\ (prim = {} /\ is_mod(p)) =>
                      res[p] = "no_version" /\ fetches[p] = 0
                /\ (prim = {} /\ ~is_mod(p) /\ files # <<>>) =>
                      chosen_file(p, files[1])
                /\ (prim = {} /\ ~is_mod(p) /\ files = <<>>) =>
                      res[p] = "no_version" /\ fetches[p] = 0

\* C18 witness: a mod has installed the primary file of a release whose
\* first file is not primary
C18_Witness ==
    \E p \in Mods :
        /\ past_selection(p)
        /\ pc[p] = "done" /\ res[p] = "downloaded"
        /\ ~latest_mod[p].files[1].primary
        /\ latest_mod[p].files[2].primary
        /\ directory[final_filename(p)] = latest_mod[p].files[2].url

\* C20: at every moment of a run at most 5 projects are in flight between
\* the start and the terminal state of their worker.
C20_AtMostFiveInFlight ==
    Cardinality(running) <= 5

\* C20 witness: five workers are in flight and a sixth project waits in
\* the queue of the same pool
C20_Witness ==
    /\ Cardinality(running) = 5
    /\ \E p \in to_download : pc[p] = "queued" /\ mainpc = phase_of(p)

\* C21: when every call returns and the workers are scheduled fairly, every
\* project whose worker has started eventually reaches its terminal state,
\* and main eventually returns: after the statistics with every scheduled
\* project terminal, or at once when the collection lookup failed.
C21_RunCompletes ==
    /\ \A p \in Projects : (pc[p] # "queued") ~> (pc[p] = "done")
    /\ <>(\/ mainpc = "aborted"
          \/ mainpc = "done" /\ \A p \in to_download : pc[p] = "done")

\* C21 witness: main has returned from a run in which the fetch of one
\* project failed and the other project was installed
C21_Witness ==
    /\ mainpc = "done"
    /\ \A p \in to_download : pc[p] = "done"
    /\ \E p \in to_download : res[p] = "failed" /\ fetches[p] = 1
    /\ \E q \in to_download : res[q] \in {"updated", "downloaded"}

\* main has returned
main_returned == mainpc \in {"done", "aborted"}

\* C22 as claimed: every run of main that has returned has emitted the
\* final statistics exactly once.
C22_EmittedOncePerRun ==
    main_returned => emitted = 1

\* C22 as amended: a run whose collection lookup succeeded emits the
\* statistics exactly once, when it ends, with every scheduled worker
\* terminal, and no counter changes afterwards; a run whose collection
\* lookup failed (lines 662-668) returns without emitting them.
C22_EmittedOnceAfterWorkers ==
    [][/\ emitted' <= 1
       /\ (mainpc' = "done") <=> (emitted' = 1)
       /\ emitted' = 1 => \A p \in to_download : pc'[p] = "done"
       /\ emitted = 1 => (stats' = stats /\ emitted' = 1)
       /\ mainpc' = "aborted" => (emitted' = 0 /\ stats' = ZeroStats)]_vars

\* C22 witness: the statistics have been emitted after mod and
\* resource-pack workers stored their outcome counters
C22_Witness ==
    /\ emitted = 1
    /\ \E p \in Mods : bumps[p] = 1
    /\ \E p \in Rps : bumps[p] = 1
    /\ stats.downloaded >= 1

\* the release lookup of p fails at the transport level: get returns None
\* (lines 33-39)
lookup_fails(p) == catalog[p].versions = NoAnswer

\* the worker of p has its result of get_latest_version
resolved(p) ==
    /\ p \in to_download
    /\ pc[p] \notin {"queued", "chk_r", "chk_w", "resolve",
                     "mc_check", "mc_lookup", "mc_ret"}

\* C24: a mod whose release lookup fails at the transport level has no
\* release selected, heads to Unresolved and ends with the unresolved
\* counter stored once, fetches nothing, and the files of its id stay as
\* the run found them; main is not ended by it.
C24_LookupFailureUnresolved ==
    \A p \in Mods :
        (lookup_fails(p) /\ resolved(p)) =>
            /\ latest_mod[p] = NoRelease
            /\ res[p] = "no_version"
            /\ pc[p] \in {"cnt_r", "cnt_w", "done"}
            /\ pc[p] = "done" => (bumps[p] = 1 /\ stats.no_version >= 1)
            /\ fetches[p] = 0
            /\ named_for(p, directory) = named_for(p, dir0)
            /\ mainpc \in {"mods", "rps", "done"}

\* C24 witness: the run has ended; the mod whose lookup failed is
\* Unresolved with its installed file in place, and the other mod was
\* updated
C24_Witness ==
    /\ mainpc = "done"
    /\ \E p, q \in Mods :
          /\ lookup_fails(p) /\ pc[p] = "done" /\ res[p] = "no_version"
          /\ existing_mod(p) # NoName /\ exists(directory, existing_mod(p))
          /\ res[q] = "updated"

\* C25: when the collection lookup fails, main reports it and returns in
\* one step from its start: in the state it leaves, and for the rest of the
\* run, no worker has started, no project was looked up or fetched, both
\* directories are as the run found them, every counter is 0, the
\* statistics were not displayed and nothing more happens.
C25_CollectionFailureEndsRun ==
    mainpc = "aborted" =>
        /\ \A p \in Projects : pc[p] = "queued" /\ fetches[p] = 0 /\ bumps[p] = 0
        /\ directory = dir0
        /\ rp_directory = rpdir0
        /\ stats = ZeroStats
        /\ lookups = 0
        /\ emitted = 0
        /\ ~ENABLED <<Next>>_vars

\* C25 witness: main has returned after a failed collection lookup, on a
\* directory with installed mods whose catalog has newer files
C25_Witness ==
    /\ mainpc = "aborted"
    /\ \A p \in Mods : catalog[p] = FullList
    /\ \E p \in Mods :
          exists(directory, filename_with_id_of(FOld.filename, id_of(p)))

\* C26: within a run download_file is called at most once for each project,
\* and a worker that has returned, its fetch failed or not, is not started
\* again and fetches no more.
C26_NoRetries ==
    [][\A p \in Projects :
          /\ fetches'[p] <= 1
          /\ pc[p] = "done" => (pc'[p] = "done" /\ fetches'[p] = fetches[p])]_vars

\* C26 witness: the run has ended with a mod and the resource pack failed,
\* each after one call of download_file
C26_Witness ==
    /\ mainpc = "done"
    /\ \E p \in Mods : res[p] = "failed" /\ fetches[p] = 1
    /\ \E p \in Rps : res[p] = "failed" /\ fetches[p] = 1

\* the run started on a directory holding two files of mod p, one of them
\* under the name of the desired file: what a crash between the rename and
\* the removal of an update leaves
interrupted_update(p) ==
    /\ Cardinality(files_of(p, dir0)) = 2
    /\ desired_release(p).truthy
    /\ desired_file(p) # NoFile
    /\ desired_name(p) \in files_of(p, dir0)

\* C27: the complete run that follows a crash between the rename and the
\* removal of an update of mod p ends with exactly one file of p's id in
\* the directory, the desired one.
C27_RecoveryAfterCrash ==
    (run = 2 /\ mainpc = "done") =>
        \A p \in Mods :
            (interrupted_update(p) /\ res[p] # "failed") =>
                files_of(p, directory) = {desired_name(p)}

\* the worker of resource pack p has called download_file
rp_fetched(p) == p \in Rps \cap to_download /\ fetches[p] >= 1

\* C29 as claimed: every file that was in ./resourcepacks when the run
\* started is there in every state of the run, and no resource pack is
\* counted as updated.
C29_RpNeverRemoves ==
    /\ \A n \in DOMAIN rpdir0 : exists(rp_directory, n)
    /\ \A p \in Rps : res[p] # "updated"

\* C29 as amended: that holds of every file except one under the temporary
\* name "<display name>.tmp" of a pack being fetched, which the fetch
\* overwrites and which is renamed or removed; a file keeps its content
\* unless it has the display name of a fetched pack; what the directory
\* gains is under the display name or the temporary name of a fetched
\* pack, and at the end of the run under the display name only.
C29_RpKeepsInstalledFiles ==
    /\ \A n \in DOMAIN rpdir0 :
          (\A p \in Rps : rp_fetched(p) => n # temp_filename(p)) =>
              /\ exists(rp_directory, n)
              /\ rp_directory[n] # rpdir0[n] =>
                    \E p \in Rps : rp_fetched(p) /\ n = final_filename(p)
    /\ \A n \in DOMAIN rp_directory \ DOMAIN rpdir0 :
          \E p \in Rps :
              /\ rp_fetched(p)
              /\ \/ n = final_filename(p)
                 \/ n = temp_filename(p) /\ mainpc # "done"
    /\ \A p \in Rps : res[p] # "updated"
    /\ \A p \in Rps : pc[p] # "remove"

\* C29 witness: a resource pack was downloaded next to a pack that was
\* there before the run, which is still there with its content
C29_Witness ==
    \E p \in Rps :
        /\ pc[p] = "done" /\ res[p] = "downloaded"
        /\ exists(rp_directory, final_filename(p))
        /\ \E n \in DOMAIN rpdir0 :
              /\ n # final_filename(p)
              /\ ~is_temp_name(n)
              /\ exists(rp_directory, n) /\ rp_directory[n] = rpdir0[n]

\* C8: in a run without --version the version catalog is asked at most
\* once, and all workers resolve against the same newest version.
C8_NewestVersionComputedOnce ==
    /\ lookups <= 1
    /\ \A p, q \in Projects : (mc[p] # None /\ mc[q] # None) => mc[p] = mc[q]

\* C9: a worker of download_mod that has returned has stored exactly one
\* outcome counter, once (a failed fetch counting as unresolved); hence at
\* the end of a run of mods the outcome counters add up to the number of
\* workers.
C9_OneOutcomePerWorker ==
    \A p \in Mods : pc[p] = "done" => bumps[p] = 1

\* C10: no increment of total_checked is lost: at the end of a run it is
\* the number of projects scheduled.
C10_NoLostIncrement ==
    mainpc = "done" => stats.checked = Cardinality(to_download)

(***************************************************************************)
(* The selectors alone: get_latest_version of both scripts applied to any  *)
(* answer of the catalog, any version, loader and newest version.          *)
(***************************************************************************)
\* the entries a version list is made of
GameVersionSets == SUBSET {V_NEW, V_OLD}
LoaderSets == { {}, {"fabric"}, {"Fabric"}, {"forge"} }
CandidateEntries ==
    { Release(gv, l, <<>>) : gv \in GameVersionSets, l \in LoaderSets }
        \cup { ReleaseNoLoaders(gv, <<>>) : gv \in { {V_NEW}, {V_OLD} } }
        \cup { ReleaseNoGameVersions(l, <<>>) : l \in { {"fabric"}, {"forge"} } }
        \cup { Junk }

\* sequences over S of length at most n
RECURSIVE SeqsUpTo(_, _)
SeqsUpTo(S, n) ==
    IF n = 0 THEN { <<>> }
    ELSE LET shorter == SeqsUpTo(S, n - 1)
         IN  shorter \cup { Append(q, x) : q \in { t \in shorter : Len(t) = n - 1 }, x \in S }

\* what get_mod_version can answer: None, JSON that is not a list, a list
SelAnswers ==
    { NoAnswer, Answer("dict", <<>>) }
        \cup { Answer("list", d) : d \in SeqsUpTo(CandidateEntries, MaxCands) }

SelLoaders == { "fabric", "Fabric" }

\* version and newest version: the newest version is read only when the
\* version is unset
SelVersions ==
    { <<v, None>> : v \in {V_NEW, V_OLD} }
        \cup { <<None, l>> : l \in {V_NEW, V_OLD, None} }

SelInput(a, vl, l) ==
    [phase |-> "input", ans |-> a, version |-> vl[1], latest |-> vl[2],
     loader |-> l, result |-> NoRelease, raised |-> FALSE]

InitSel ==
    /\ run = 1
    /\ version = None
    /\ catalog = [p \in Projects |-> FullList]
    /\ to_download = {}
    /\ directory = EmptyDir
    /\ rp_directory = EmptyDir
    /\ dir0 = EmptyDir
    /\ rpdir0 = EmptyDir
    /\ prev = NoPrev
    /\ ProcessStart
    /\ \E a \in SelAnswers, vl \in SelVersions, l \in SelLoaders :
          sel = SelInput(a, vl, l)

\* modrinth_collection_downloader.py, lines 227-297
Select ==
    /\ sel.phase = "input"
    /\ sel' = [sel EXCEPT
                 !.phase = "done",
                 !.result = get_latest_version(sel.ans, sel.version,
                                               sel.loader, sel.latest)]
    /\ UNCHANGED <<run, version, catalog, dir0, rpdir0, prev, to_download>>
    /\ UNCHANGED fs_vars
    /\ UNCHANGED main_vars
    /\ UNCHANGED worker_vars

\* download_modrinth.py, lines 101-116 (args.version is required there; a
\* JSON answer that is not a list is not modelled for it)
Dm_Select ==
    /\ sel.phase = "input"
    /\ sel.version # None
    /\ sel.ans.kind # "dict"
    /\ sel' = [sel EXCEPT
                 !.phase = "dm_done",
                 !.raised = dm_raises(sel.ans, sel.version, sel.loader),
                 !.result = IF dm_raises(sel.ans, sel.version, sel.loader)
                            THEN NoRelease
                            ELSE dm_get_latest_version(sel.ans, sel.version,
                                                       sel.loader)]
    /\ UNCHANGED <<run, version, catalog, dir0, rpdir0, prev, to_download>>
    /\ UNCHANGED fs_vars
    /\ UNCHANGED main_vars
    /\ UNCHANGED worker_vars

NextSel ==
    \/ Select
    \/ Dm_Select

SpecSel == InitSel /\ [][NextSel]_vars

\* C5: with an explicit version, a release returned by get_latest_version
\* (of either script) has the loaders field containing the platform,
\* compared case-insensitively, and the game_versions field containing the
\* version.
C5_ExplicitResultMatches ==
    (/\ sel.phase \in {"done", "dm_done"}
     /\ sel.version # None
     /\ sel.result.truthy) =>
        /\ sel.result.isdict /\ sel.result.has_gv /\ sel.result.has_loaders
        /\ sel.version \in sel.result.game_versions
        /\ \E l \in sel.result.loaders : lower(l) = lower(sel.loader)
        /\ \E i \in 1..Len(sel.ans.data) : sel.ans.data[i] = sel.result

\* C5 witness: the release returned is the second candidate, matched on a
\* loader written in another case, after a candidate of the right version
\* and another loader
C5_Witness ==
    /\ sel.phase = "done"
    /\ sel.version = V_NEW
    /\ sel.loader = "Fabric"
    /\ Len(sel.ans.data) = 2
    /\ sel.ans.data[1] = Release({V_NEW}, {"forge"}, <<>>)
    /\ sel.ans.data[2] = Release({V_NEW, V_OLD}, {"fabric"}, <<>>)
    /\ sel.result = sel.ans.data[2]

\* the positions of the candidates of each tier, as the claim words them
platform_matches(r) ==
    r.isdict /\ r.has_loaders /\ \E l \in r.loaders : lower(l) = lower(sel.loader)

newest_matches(r) ==
    r.isdict /\ r.has_gv /\ sel.latest \in r.game_versions

Tier(k) ==
    { i \in 1..Len(sel.ans.data) :
        LET r == sel.ans.data[i]
        IN  CASE k = 1 -> platform_matches(r) /\ newest_matches(r)
              [] k = 2 -> newest_matches(r)
              [] k = 3 -> platform_matches(r) }

Earliest(S) == CHOOSE i \in S : \A j \in S : i <= j

\* C7: with the version unset and the newest version known, the result is
\* the earliest candidate of the first non-empty tier among (1) platform and
\* newest version, (2) newest version, (3) platform; it is none exactly
\* when the three tiers are empty.
C7_ThreeTierFallback ==
    (/\ sel.phase = "done"
     /\ sel.version = None
     /\ sel.latest # None) =>
        /\ \A k \in 1..3 :
              (Tier(k) # {} /\ \A h \in 1..(k - 1) : Tier(h) = {}) =>
                  sel.result = sel.ans.data[Earliest(Tier(k))]
        /\ ~sel.result.truthy <=> (\A k \in 1..3 : Tier(k) = {})

\* C7 witness: only tier 2 is satisfiable, by the second candidate, which
\* is returned
C7_Witness ==
    /\ sel.phase = "done"
    /\ sel.version = None
    /\ sel.latest = V_NEW
    /\ Tier(1) = {}
    /\ Tier(3) = {}
    /\ Tier(2) = {2}
    /\ sel.result = sel.ans.data[2]
    /\ sel.result.truthy

\* candidate r supports the version asked for
version_matches(r) ==
    r.isdict /\ r.has_gv /\ sel.version \in r.game_versions

\* the positions of the candidates that match the platform and the version
Matching ==
    { i \in 1..Len(sel.ans.data) :
        platform_matches(sel.ans.data[i]) /\ version_matches(sel.ans.data[i]) }

\* C17: with an explicit version, get_latest_version returns the earliest
\* candidate that matches platform and version: none before it matches
\* both, and it returns none only if no candidate matches both.
C17_ExplicitEarliestMatch ==
    (sel.phase = "done" /\ sel.version # None) =>
        /\ sel.result.truthy =>
              \E i \in Matching :
                  /\ sel.result = sel.ans.data[i]
                  /\ \A j \in 1..(i - 1) : j \notin Matching
        /\ ~sel.result.truthy => Matching = {}

\* C17 witness: two different candidates match, and the first is returned
C17_Witness ==
    /\ sel.phase = "done"
    /\ sel.version = V_OLD
    /\ Matching = {1, 2}
    /\ sel.ans.data[1] # sel.ans.data[2]
    /\ sel.result = sel.ans.data[1]

(***************************************************************************)
(* The name functions alone: the target filename download_mod builds, read *)
(* back by get_existing_mods.                                              *)
(***************************************************************************)
\* the file display names: any string of at most MaxNameLen tokens
DisplayNames == SeqsUpTo({"a", "b", DOT}, MaxNameLen)

\* project ids, without and with a dot
NameIds == { <<"m1">>, <<"m2">>, <<"m1", DOT, "x">> }

InitNames ==
    /\ run = 1
    /\ version = None
    /\ catalog = [p \in Projects |-> FullList]
    /\ to_download = {}
    /\ directory = EmptyDir
    /\ rp_directory = EmptyDir
    /\ dir0 = EmptyDir
    /\ rpdir0 = EmptyDir
    /\ prev = NoPrev
    /\ ProcessStart
    /\ \E d \in DisplayNames, i \in NameIds :
          sel = [phase |-> "name", display |-> d, id |-> i, target |-> <<>>,
                 skipped |-> FALSE, found |-> <<>>]

\* download_mod, lines 345-348: filename_with_id
BuildName ==
    /\ sel.phase = "name"
    /\ sel' = [sel EXCEPT !.phase = "built",
                          !.target = filename_with_id_of(sel.display, sel.id)]
    /\ UNCHANGED <<run, version, catalog, dir0, rpdir0, prev, to_download>>
    /\ UNCHANGED fs_vars
    /\ UNCHANGED main_vars
    /\ UNCHANGED worker_vars

\* get_existing_mods, lines 206-211, on the name built: skipped, or listed
\* with its second-to-last segment as the id
ScanName ==
    /\ sel.phase = "built"
    /\ sel' = [sel EXCEPT !.phase = "scanned",
                          !.skipped = ~has_id(sel.target),
                          !.found = IF has_id(sel.target)
                                    THEN id_in_name(sel.target) ELSE <<>>]
    /\ UNCHANGED <<run, version, catalog, dir0, rpdir0, prev, to_download>>
    /\ UNCHANGED fs_vars
    /\ UNCHANGED main_vars
    /\ UNCHANGED worker_vars

NextNames ==
    \/ BuildName
    \/ ScanName

SpecNames == InitNames /\ [][NextNames]_vars

no_dot(s) == \A k \in 1..Len(s) : s[k] # DOT

\* C23: for every id without a dot and every display name, the target
\* filename download_mod builds is not skipped by get_existing_mods and is
\* mapped back by it to exactly that id.
C23_NameRoundTrip ==
    (sel.phase = "scanned" /\ no_dot(sel.id)) =>
        /\ ~sel.skipped
        /\ sel.found = sel.id

\* C23 witness: a display name with two dots has been built into a target
\* name and read back
C23_Witness ==
    /\ sel.phase = "scanned"
    /\ sel.display = <<"a", DOT, "b", DOT, "a">>
    /\ sel.id = <<"m1">>
    /\ sel.target = <<"a", DOT, "b", DOT, "m1", DOT, "a">>
    /\ sel.found = <<"m1">>

(***************************************************************************)
(* download_modrinth.py: main and download_mod of the first script         *)
(* generation.  It has no counters, no temporary file and no resource      *)
(* packs; --version is required and the loader is compared exactly.        *)
(***************************************************************************)
\* a release whose loader tag is written as args.loader is
RExact == Release({V_NEW}, {"fabric"}, <<FAlt, FNew>>)

DmFullList == Entry(TRUE, Answer("list", <<RExact, ROld>>))

\* every mod has the version list with the exact loader tag, except at most
\* one
DmCatalogs ==
    { [p \in Projects |-> IF p = q THEN e ELSE DmFullList] :
        q \in Mods,
        e \in { DmFullList, FullList, Entry(TRUE, NoAnswer),
                Entry(TRUE, Answer("list", <<Junk, ROld>>)) } }

InitDm ==
    /\ run = 1
    /\ version = V_NEW
    /\ to_download = Mods
    /\ catalog \in DmCatalogs
    /\ directory \in InitialDirs
    /\ rp_directory = EmptyDir
    /\ dir0 = directory
    /\ rpdir0 = rp_directory
    /\ prev = NoPrev
    /\ sel = NoSel
    /\ ProcessStart

\* lines 157-163: the collection lookup fails and main returns, or main
\* takes the snapshot of the mods directory
Dm_Collect ==
    /\ mainpc = "start"
    /\ \/ /\ mainpc' = "aborted"
          /\ UNCHANGED existing_mods
       \/ /\ mainpc' = "mods"
          /\ existing_mods' \in Scans(directory)
    /\ UNCHANGED <<existing_resourcepacks, emitted>>
    /\ UNCHANGED worker_vars
    /\ UNCHANGED fs_vars
    /\ UNCHANGED env_vars

\* lines 165-166: a pool thread takes the next mod
Dm_Start(p) ==
    /\ mainpc = "mods"
    /\ p \in Mods \cap to_download
    /\ pc[p] = "queued"
    /\ \A q \in Mods : q < p => pc[q] # "queued"
    /\ Cardinality(running) < max_workers
    /\ pc' = [pc EXCEPT ![p] = "resolve"]
    /\ UNCHANGED <<res, ld, latest_mod, mc, stats, cache, answers, fetches, bumps, lookups>>
    /\ UNCHANGED fs_vars
    /\ UNCHANGED main_vars
    /\ UNCHANGED env_vars

\* lines 124-143 for the selected release rel
dm_after_select(p, rel) ==
    IF ~rel.truthy THEN Branch("done", "no_version")
    ELSE IF primary_file(rel) = NoFile THEN Branch("done", "no_version")
    ELSE IF existing_mod(p) # NoName /\ existing_mod(p) = final_name(p, rel)
         THEN Branch("done", "already_exist")
    ELSE Branch("fetch", "none")

\* lines 121-143: get_latest_version, which may raise into the except of
\* line 152, and what download_mod does with its result
Dm_Resolve(p) ==
    /\ pc[p] = "resolve"
    /\ IF dm_raises(catalog[p].versions, version, LOADER)
       THEN /\ pc' = [pc EXCEPT ![p] = "done"]
            /\ res' = [res EXCEPT ![p] = "exception"]
            /\ UNCHANGED latest_mod
       ELSE LET rel == dm_get_latest_version(catalog[p].versions, version, LOADER)
            IN  /\ latest_mod' = [latest_mod EXCEPT ![p] = rel]
                /\ pc' = [pc EXCEPT ![p] = dm_after_select(p, rel).pc]
                /\ res' = [res EXCEPT ![p] = dm_after_select(p, rel).res]
    /\ UNCHANGED <<ld, mc, stats, cache, answers, fetches, bumps, lookups>>
    /\ UNCHANGED fs_vars
    /\ UNCHANGED main_vars
    /\ UNCHANGED env_vars

\* lines 30-34 and 149: download_file has returned, the URLError of a
\* failed fetch printed and dropped; the worker goes on to the removal of
\* the installed file if there is one
dm_after_download(p) ==
    IF existing_mod(p) # NoName THEN "remove" ELSE "done"

\* lines 145-147 and 30-34: urlretrieve on the final name; it fails with
\* URLError before it has opened the destination, or opens it and starts
\* writing
Dm_Fetch_Begin(p) ==
    /\ pc[p] = "fetch"
    /\ fetches' = [fetches EXCEPT ![p] = @ + 1]
    /\ \/ /\ directory' = written(directory, final_filename(p), "partial")
          /\ pc' = [pc EXCEPT ![p] = "fetching"]
          /\ UNCHANGED res
       \/ /\ UNCHANGED directory
          /\ pc' = [pc EXCEPT ![p] = dm_after_download(p)]
          /\ res' = [res EXCEPT ![p] = "failed"]
    /\ UNCHANGED rp_directory
    /\ UNCHANGED <<ld, latest_mod, mc, stats, cache, answers, bumps, lookups>>
    /\ UNCHANGED main_vars
    /\ UNCHANGED env_vars

\* urlretrieve completes the file; or fails mid-stream with a URLError
\* (ContentTooShortError), which download_file drops; or with another
\* exception, which reaches the except of line 152
Dm_Fetch_End(p) ==
    /\ pc[p] = "fetching"
    /\ \/ /\ directory' = written(directory, final_filename(p),
                                  primary_file(latest_mod[p]).url)
          /\ pc' = [pc EXCEPT ![p] = dm_after_download(p)]
          /\ res' = [res EXCEPT ![p] = IF existing_mod(p) # NoName
                                       THEN "none" ELSE "downloaded"]
       \/ /\ UNCHANGED directory
          /\ pc' = [pc EXCEPT ![p] = dm_after_download(p)]
          /\ res' = [res EXCEPT ![p] = "failed"]
       \/ /\ UNCHANGED directory
          /\ pc' = [pc EXCEPT ![p] = "done"]
          /\ res' = [res EXCEPT ![p] = "failed"]
    /\ UNCHANGED rp_directory
    /\ UNCHANGED <<ld, latest_mod, mc, stats, cache, answers, fetches, bumps, lookups>>
    /\ UNCHANGED main_vars
    /\ UNCHANGED env_vars

\* lines 149-151: os.remove of the installed file, which raises into the
\* except of line 152 when the file is not there
Dm_Remove(p) ==
    /\ pc[p] = "remove"
    /\ IF exists(directory, existing_mod(p))
       THEN /\ directory' = os_remove(directory, existing_mod(p))
            /\ res' = [res EXCEPT ![p] = IF @ = "failed" THEN "failed" ELSE "updated"]
       ELSE /\ UNCHANGED directory
            /\ res' = [res EXCEPT ![p] = IF @ = "failed" THEN "failed" ELSE "exception"]
    /\ pc' = [pc EXCEPT ![p] = "done"]
    /\ UNCHANGED rp_directory
    /\ UNCHANGED <<ld, latest_mod, mc, stats, cache, answers, fetches, bumps, lookups>>
    /\ UNCHANGED main_vars
    /\ UNCHANGED env_vars

\* lines 165-166: the pool has shut down and main returns
Dm_Return ==
    /\ mainpc = "mods"
    /\ \A p \in Mods \cap to_download : pc[p] = "done"
    /\ mainpc' = "done"
    /\ UNCHANGED <<existing_mods, existing_resourcepacks, emitted>>
    /\ UNCHANGED worker_vars
    /\ UNCHANGED fs_vars
    /\ UNCHANGED env_vars

NextDm ==
    \/ Dm_Collect
    \/ Dm_Return
    \/ \E p \in Projects : Dm_Start(p)
    \/ \E p \in Projects : Dm_Resolve(p)
    \/ \E p \in Projects : Dm_Fetch_Begin(p)
    \/ \E p \in Projects : Dm_Fetch_End(p)
    \/ \E p \in Projects : Dm_Remove(p)

SpecDm == InitDm /\ [][NextDm]_vars

\* C28: in download_modrinth.py, a worker of download_mod that has
\* returned from the update of a mod with an installed file, its fetch
\* failed, has left the installed file in place and no file under the new
\* target name.
C28_DmFailedFetchUntouched ==
    \A p \in Mods :
        (pc[p] = "done" /\ res[p] = "failed" /\ existing_mod(p) # NoName) =>
            /\ exists(directory, existing_mod(p))
            /\ ~exists(directory, final_filename(p))

\* C19: get_latest_version never returns an entry that is not a record, or
\* that lacks the loaders field or the game_versions field.
C19_MalformedSkipped ==
    (sel.phase = "done" /\ sel.result.truthy) =>
        /\ sel.result.isdict
        /\ sel.result.has_loaders
        /\ sel.result.has_gv

====
